---- MODULE Spec2Model ----
(***************************************************************************)
(* The socket-state model of the dashboard: src/src/app.rs (App, its       *)
(* navigation handlers, the refresh and the process-detail resolution),    *)
(* with the error type of src/src/errors.rs.                               *)
(*                                                                         *)
(* A usize value v is written as the integer of least magnitude congruent  *)
(* to v modulo 2^64: 0, 1, 2, ... stand for themselves and -1, -2, ...     *)
(* stand for usize::MAX, usize::MAX - 1, ...  Wrapping addition and        *)
(* subtraction are then + and - and only the comparisons need care (ULt).  *)
(***************************************************************************)
EXTENDS Integers, Sequences, FiniteSets, TLC

\* Longest result the enumeration collaborator returns.
MaxRaw == 3
\* How far below 2^64 a wrapped cursor is followed.
MaxWrap == 1

VARIABLES
    sockets_info_res,    \* Result<SocketsContainer, ConnectionToolsError>
    tcp_sockets,         \* Vec<String>
    udp_sockets,         \* Vec<String>
    tcp_sockets_count,   \* usize
    udp_sockets_count,   \* usize
    selected_type,       \* SelectedType
    tcp_selection,       \* Option<usize>
    udp_selection,       \* Option<usize>
    should_quit,         \* bool
    overflow_checks,     \* the build: TRUE panics on usize overflow, FALSE wraps
    panicked,            \* "" while running, else the function that panicked
    enumerated,          \* what get_sockets_info returned to the latest refresh
    run                  \* the consecutive on_up / on_down calls made so far

app == <<sockets_info_res, tcp_sockets, udp_sockets, tcp_sockets_count,
         udp_sockets_count, selected_type, tcp_selection, udp_selection,
         should_quit>>

vars == <<sockets_info_res, tcp_sockets, udp_sockets, tcp_sockets_count,
          udp_sockets_count, selected_type, tcp_selection, udp_selection,
          should_quit, overflow_checks, panicked, enumerated, run>>

----------------------------------------------------------------------------
\* Option<T> and Result<T, E>

None == <<>>

Some(x) == <<x>>

unwrap_or(opt, default) == IF opt = None THEN default ELSE opt[1]

Ok(v) == [ok |-> TRUE, value |-> v]

Err(e) == [ok |-> FALSE, error |-> e]

\* What a call gives back: a value, or a panic that unwinds through the caller.
Return(v) == [panic |-> FALSE, value |-> v]

Panic == [panic |-> TRUE, value |-> None]

----------------------------------------------------------------------------
\* usize arithmetic

\* a < b on usize
ULt(a, b) == IF (a >= 0) = (b >= 0) THEN a < b ELSE b < 0

\* a - b on usize: "attempt to subtract with overflow" when the build checks it
USub(a, b) == IF ULt(a, b) /\ overflow_checks THEN Panic ELSE Return(a - b)

\* a + 1 on usize
UInc(a) == IF a = -1 /\ overflow_checks THEN Panic ELSE Return(a + 1)

\* The cursor values the model follows.
InWindow(opt) == IF opt = None THEN TRUE ELSE opt[1] \in (0 - MaxWrap)..MaxRaw

----------------------------------------------------------------------------
\* The enumeration collaborator's records (netstat2::SocketInfo)

TcpSocketInfo(la, lp, ra, rp, st) ==
    [local_addr |-> la, local_port |-> lp, remote_addr |-> ra,
     remote_port |-> rp, state |-> st]

UdpSocketInfo(la, lp) == [local_addr |-> la, local_port |-> lp]

SocketInfo(proto, info, pids) ==
    [protocol_socket_info |-> [proto |-> proto, info |-> info],
     associated_pids |-> pids]

\* The sockets the host may have open, in the order of its socket table; the
\* last one is a tcp socket whose owner could not be resolved.
SocketTable ==
    << SocketInfo("Tcp", TcpSocketInfo("127.0.0.1", 80, "0.0.0.0", 0, "LISTEN"), <<1>>),
       SocketInfo("Udp", UdpSocketInfo("0.0.0.0", 53), <<>>),
       SocketInfo("Tcp", TcpSocketInfo("10.0.0.1", 443, "203.0.113.5", 55000, "ESTABLISHED"), <<2, 3>>),
       SocketInfo("Udp", UdpSocketInfo("127.0.0.1", 5353), <<1>>),
       SocketInfo("Tcp", TcpSocketInfo("192.168.0.2", 22, "0.0.0.0", 0, "LISTEN"), <<>>) >>

\* The sockets the navigation is followed over: a udp socket, a tcp socket of
\* two processes and the tcp socket of none.
NavSlots == {2, 3, 5}

Slots == UNION { [1..n -> DOMAIN SocketTable] : n \in 0..MaxRaw }

\* Every list of at most MaxRaw records, in any order, duplicates included.
RawLists == { [i \in DOMAIN slots |-> SocketTable[slots[i]]] : slots \in Slots }

\* The lists of NavSlots that follow the table's order (one list per multiset
\* of records).
TableOrderLists ==
    { [i \in DOMAIN slots |-> SocketTable[slots[i]]] :
        slots \in { f \in Slots :
                      /\ \A i \in DOMAIN f : f[i] \in NavSlots
                      /\ \A i \in DOMAIN f : \A j \in DOMAIN f : i < j => f[i] <= f[j] } }

\* The collaborator's errors; format!("{}", err) prints the text.
EnumErrors == { [kind |-> "Os", text |-> "permission denied"],
                [kind |-> "Internal", text |-> "platform api error"] }

display_err(err) == err.text

\* Result<Vec<SocketInfo>, Error> of get_sockets_info: every list, and the
\* lists in table order; the navigation reads of a snapshot only the number
\* of its rows and the process ids of its tcp rows, which the second set
\* already varies in full.
AnyResults == { Ok(raw) : raw \in RawLists } \cup { Err(e) : e \in EnumErrors }

EnumResults == { Ok(raw) : raw \in TableOrderLists } \cup { Err(e) : e \in EnumErrors }

----------------------------------------------------------------------------
\* SelectedType

\* right() wrapping around instead of saturating
right_cyclic(self) ==
    CASE self = "Nothing" -> "Tcp"
      [] self = "Tcp" -> "Udp"
      [] self = "Udp" -> "Nothing"

left(self) ==
    CASE self = "Nothing" -> "Nothing"
      [] self = "Tcp" -> "Nothing"
      [] self = "Udp" -> "Tcp"

right(self) ==
    CASE self = "Nothing" -> "Tcp"
      [] self = "Tcp" -> "Udp"
      [] self = "Udp" -> "Udp"

----------------------------------------------------------------------------
\* SocketsContainer, split_sockets and the row formatting

SocketsContainer(tcp, udp) == [tcp_sockets |-> tcp, udp_sockets |-> udp]

SocketsContainer_new == SocketsContainer(<<>>, <<>>)

\* The fold's step skipping a record its vector already holds
split_step_dedup(res_tuple, si) ==
    LET row == <<si.protocol_socket_info.info, si.associated_pids>>
        held(vec) == \E i \in DOMAIN vec : vec[i] = row
    IN  IF si.protocol_socket_info.proto = "Tcp"
        THEN <<IF held(res_tuple[1]) THEN res_tuple[1] ELSE Append(res_tuple[1], row),
               res_tuple[2]>>
        ELSE <<res_tuple[1],
               IF held(res_tuple[2]) THEN res_tuple[2] ELSE Append(res_tuple[2], row)>>

\* The fold's step inserting at the front instead of pushing at the back
split_step_front(res_tuple, si) ==
    LET row == <<si.protocol_socket_info.info, si.associated_pids>>
    IN  IF si.protocol_socket_info.proto = "Tcp"
        THEN <<(<<row>>) \o res_tuple[1], res_tuple[2]>>
        ELSE <<res_tuple[1], (<<row>>) \o res_tuple[2]>>

\* The fold's step: push (info, pids) on the vector its protocol names.
split_step(res_tuple, si) ==
    IF si.protocol_socket_info.proto = "Tcp"
    THEN <<Append(res_tuple[1], <<si.protocol_socket_info.info, si.associated_pids>>),
           res_tuple[2]>>
    ELSE <<res_tuple[1],
           Append(res_tuple[2], <<si.protocol_socket_info.info, si.associated_pids>>)>>

RECURSIVE split_fold(_, _)
split_fold(res_tuple, rest) ==
    IF rest = <<>> THEN res_tuple
    ELSE split_fold(split_step(res_tuple, Head(rest)), Tail(rest))

split_sockets(sockets_info) ==
    LET sockets_tuple == split_fold(<<(<<>>), (<<>>)>>, sockets_info)
    IN  SocketsContainer(sockets_tuple[1], sockets_tuple[2])

\* {:?} of a slice of u32
RECURSIVE debug_items(_)
debug_items(pids) ==
    IF pids = <<>> THEN ""
    ELSE IF Len(pids) = 1 THEN ToString(pids[1])
    ELSE ToString(pids[1]) \o ", " \o debug_items(Tail(pids))

debug_pids(pids) == "[" \o debug_items(pids) \o "]"

\* tcp_socket_to_string without the blanks around ':' and before '['
tcp_socket_to_string_tight(tcp_si, associated_pids) ==
    "local[" \o tcp_si.local_addr \o ":" \o ToString(tcp_si.local_port)
    \o "] -> remote[" \o tcp_si.remote_addr \o ":" \o ToString(tcp_si.remote_port)
    \o "]; pids" \o debug_pids(associated_pids)
    \o "; state: " \o tcp_si.state

tcp_socket_to_string(tcp_si, associated_pids) ==
    "local[" \o tcp_si.local_addr \o " : " \o ToString(tcp_si.local_port)
    \o "] -> remote [" \o tcp_si.remote_addr \o " : " \o ToString(tcp_si.remote_port)
    \o "]; pids" \o debug_pids(associated_pids)
    \o "; state: " \o tcp_si.state

udp_socket_to_string(udp_si, associated_pids) ==
    "local[" \o udp_si.local_addr \o " : " \o ToString(udp_si.local_port)
    \o "] -> *:* pids" \o debug_pids(associated_pids)

----------------------------------------------------------------------------
\* The cursor arithmetic

\* up_select_counter selecting nothing on a list of no rows
up_select_counter_or_none(current, base_collection_len) ==
    IF base_collection_len = 0 THEN Return(None)
    ELSE IF current # None
    THEN IF ULt(0, current[1])
         THEN Return(Some(current[1] - 1))
         ELSE LET last == USub(base_collection_len, 1)
              IN  IF last.panic THEN Panic ELSE Return(Some(last.value))
    ELSE Return(Some(0))

\* up_select_counter entering an unset cursor at the last index
up_select_counter_from_last(current, base_collection_len) ==
    IF current # None
    THEN IF ULt(0, current[1])
         THEN Return(Some(current[1] - 1))
         ELSE LET last == USub(base_collection_len, 1)
              IN  IF last.panic THEN Panic ELSE Return(Some(last.value))
    ELSE LET last == USub(base_collection_len, 1)
         IN  IF last.panic THEN Panic ELSE Return(Some(last.value))

\* up_select_counter wrapping to the length instead of the last index
up_select_counter_to_len(current, base_collection_len) ==
    IF current # None
    THEN IF ULt(0, current[1])
         THEN Return(Some(current[1] - 1))
         ELSE Return(Some(base_collection_len))
    ELSE Return(Some(0))

up_select_counter(current, base_collection_len) ==
    IF current # None
    THEN IF ULt(0, current[1])
         THEN Return(Some(current[1] - 1))
         ELSE LET last == USub(base_collection_len, 1)
              IN  IF last.panic THEN Panic ELSE Return(Some(last.value))
    ELSE Return(Some(0))

\* down_select_counter wrapping from the last index only, not from beyond it
down_select_counter_exact(current, base_collection_len) ==
    IF current # None
    THEN LET last == USub(base_collection_len, 1)
         IN  IF last.panic THEN Panic
             ELSE IF current[1] = last.value
                  THEN Return(Some(0))
                  ELSE LET next == UInc(current[1])
                       IN  IF next.panic THEN Panic ELSE Return(Some(next.value))
    ELSE Return(Some(0))

\* down_select_counter comparing with the length instead of the last index
down_select_counter_late(current, base_collection_len) ==
    IF current # None
    THEN IF ~ULt(current[1], base_collection_len)
         THEN Return(Some(0))
         ELSE Return(Some(current[1] + 1))
    ELSE Return(Some(0))

down_select_counter(current, base_collection_len) ==
    IF current # None
    THEN LET last == USub(base_collection_len, 1)
         IN  IF last.panic THEN Panic
             ELSE IF ~ULt(current[1], last.value)
                  THEN Return(Some(0))
                  ELSE LET next == UInc(current[1])
                       IN  IF next.panic THEN Panic ELSE Return(Some(next.value))
    ELSE Return(Some(0))

----------------------------------------------------------------------------
\* ConnectionToolsError (src/src/errors.rs)

FailToGetSocketsInfo(message) == [variant |-> "FailToGetSocketsInfo", message |-> message]

\* The display without its prefix
ConnectionToolsError_display_bare(e) == e.message

\* #[fail(display = "fail to get sockets info: {}", message)]
ConnectionToolsError_display(e) == "fail to get sockets info: " \o e.message

----------------------------------------------------------------------------
\* The process-introspection collaborator (sysinfo)

Pids == {1, 2, 3}

\* What get_process(pid) reports of a process that exists.
Process(pid) ==
    [name |-> "proc" \o ToString(pid), status |-> "Run",
     cmd |-> "[\"proc" \o ToString(pid) \o "\"]",
     exe |-> "\"/bin/proc" \o ToString(pid) \o "\"", environ |-> "[]",
     memory |-> 1024 * pid, virtual_memory |-> 4096 * pid,
     start_time |-> 100 + pid, cpu_usage |-> "0"]

\* Option<&Process>: the table `alive` holds the processes refresh_all() found.
get_process(alive, pid) == IF pid \in alive THEN Some(Process(pid)) ELSE None

process_block(pid, proc_) ==
    "pid " \o ToString(pid) \o "::\nname " \o proc_.name
    \o "\nstatus: " \o proc_.status \o "\ncmd: " \o proc_.cmd
    \o "\nexe: " \o proc_.exe \o "\nenviron: " \o proc_.environ
    \o "\nmemory: " \o ToString(proc_.memory)
    \o "\nvirtual memory: " \o ToString(proc_.virtual_memory)
    \o "\nstart time: " \o ToString(proc_.start_time)
    \o "\ncpu usage: " \o proc_.cpu_usage

\* The lookup that fails leaving no text
pid_info_silent(alive, pid) ==
    LET found == get_process(alive, pid)
    IN  IF found # None THEN process_block(pid, found[1]) ELSE ""

pid_info(alive, pid) ==
    LET found == get_process(alive, pid)
    IN  IF found # None THEN process_block(pid, found[1]) ELSE "todo: fix me"

\* pids.iter().map(..).collect::<String>()
RECURSIVE pids_info(_, _)
pids_info(alive, pids) ==
    IF pids = <<>> THEN ""
    ELSE pid_info(alive, Head(pids)) \o pids_info(alive, Tail(pids))

----------------------------------------------------------------------------
\* App: the read-only methods

\* selected_tcp handing out the stored cursor whatever the focus
selected_tcp_stored == tcp_selection

selected_tcp ==
    CASE selected_type = "Udp" -> None
      [] selected_type = "Nothing" -> None
      [] selected_type = "Tcp" -> tcp_selection

selected_udp ==
    CASE selected_type = "Nothing" -> None
      [] selected_type = "Tcp" -> None
      [] selected_type = "Udp" -> udp_selection

\* Vec indexing: "index out of bounds" unless index < len
index(vec, i) == IF i >= 0 /\ i < Len(vec) THEN Return(vec[i + 1]) ELSE Panic

\* selected_socket_info showing the stored error instead of the fixed text
selected_socket_info_showing(alive) ==
    CASE selected_type = "Nothing" -> Return("choose socket with arrow keys")
      [] selected_type = "Tcp" ->
            IF ~sockets_info_res.ok
            THEN Return(ConnectionToolsError_display(sockets_info_res.error))
            ELSE LET selected_socket ==
                         index(sockets_info_res.value.tcp_sockets,
                               unwrap_or(tcp_selection, 0))
                 IN  IF selected_socket.panic THEN Panic
                     ELSE Return(pids_info(alive, selected_socket.value[2]))
      [] selected_type = "Udp" -> Return("todo: implement in the same way as for TCP")

selected_socket_info_with(alive) ==
    CASE selected_type = "Nothing" -> Return("choose socket with arrow keys")
      [] selected_type = "Tcp" ->
            IF ~sockets_info_res.ok
            THEN Return("fail to get sockets info")
            ELSE LET selected_socket ==
                         index(sockets_info_res.value.tcp_sockets,
                               unwrap_or(tcp_selection, 0))
                 IN  IF selected_socket.panic THEN Panic
                     ELSE Return(pids_info(alive, selected_socket.value[2]))
      [] selected_type = "Udp" -> Return("todo: implement in the same way as for TCP")

----------------------------------------------------------------------------
\* App::new and the refresh

snapshot == <<sockets_info_res, tcp_sockets, udp_sockets, tcp_sockets_count,
              udp_sockets_count>>

NoRun == [op |-> "", calls |-> 0, start |-> None]

Init ==
    /\ sockets_info_res = Ok(SocketsContainer_new)
    /\ tcp_sockets = <<>>
    /\ udp_sockets = <<>>
    /\ tcp_sockets_count = 0
    /\ udp_sockets_count = 0
    /\ selected_type = "Nothing"
    /\ tcp_selection = None
    /\ udp_selection = None
    /\ should_quit = FALSE
    /\ overflow_checks \in BOOLEAN
    /\ panicked = ""
    /\ enumerated = None
    /\ run = NoRun

\* get_sockets_info(..).map_err(..).map(split_sockets)
\* The stored result staying an error once it is one
tcp_and_upd_sockets_sticky(result) ==
    IF ~sockets_info_res.ok THEN sockets_info_res
    ELSE IF result.ok
    THEN Ok(split_sockets(result.value))
    ELSE Err(FailToGetSocketsInfo(display_err(result.error)))

tcp_and_upd_sockets(result) ==
    IF result.ok
    THEN Ok(split_sockets(result.value))
    ELSE Err(FailToGetSocketsInfo(display_err(result.error)))

tcp_count_of(res) == IF res.ok THEN Len(res.value.tcp_sockets) ELSE 0

\* The udp count read from the tcp vector
udp_count_of_tcp(res) == IF res.ok THEN Len(res.value.tcp_sockets) ELSE 0

udp_count_of(res) == IF res.ok THEN Len(res.value.udp_sockets) ELSE 0

\* The rows kept as they were when the refresh failed
tcp_rows_kept(res) ==
    IF res.ok
    THEN [i \in 1..Len(res.value.tcp_sockets) |->
             tcp_socket_to_string(res.value.tcp_sockets[i][1], res.value.tcp_sockets[i][2])]
    ELSE tcp_sockets

tcp_rows_of(res) ==
    IF res.ok
    THEN [i \in 1..Len(res.value.tcp_sockets) |->
             tcp_socket_to_string(res.value.tcp_sockets[i][1], res.value.tcp_sockets[i][2])]
    ELSE <<>>

udp_rows_of(res) ==
    IF res.ok
    THEN [i \in 1..Len(res.value.udp_sockets) |->
             udp_socket_to_string(res.value.udp_sockets[i][1], res.value.udp_sockets[i][2])]
    ELSE <<>>

\* The refresh dropping both cursors with the old snapshot
update_sockets_resetting(results) ==
    /\ panicked = ""
    /\ \E result \in results :
          /\ enumerated' = Some(result)
          /\ sockets_info_res' = tcp_and_upd_sockets(result)
    /\ tcp_sockets_count' = tcp_count_of(sockets_info_res')
    /\ udp_sockets_count' = udp_count_of(sockets_info_res')
    /\ tcp_sockets' = tcp_rows_of(sockets_info_res')
    /\ udp_sockets' = udp_rows_of(sockets_info_res')
    /\ tcp_selection' = None
    /\ udp_selection' = None
    /\ run' = NoRun
    /\ UNCHANGED <<selected_type, should_quit, overflow_checks, panicked>>

update_sockets_from(results) ==
    /\ panicked = ""
    /\ \E result \in results :
          /\ enumerated' = Some(result)
          /\ sockets_info_res' = tcp_and_upd_sockets(result)
    /\ tcp_sockets_count' = tcp_count_of(sockets_info_res')
    /\ udp_sockets_count' = udp_count_of(sockets_info_res')
    /\ tcp_sockets' = tcp_rows_of(sockets_info_res')
    /\ udp_sockets' = udp_rows_of(sockets_info_res')
    /\ run' = NoRun
    /\ UNCHANGED <<selected_type, tcp_selection, udp_selection, should_quit,
                   overflow_checks, panicked>>

update_sockets == update_sockets_from(EnumResults)

on_tick == update_sockets

----------------------------------------------------------------------------
\* Navigation

\* The calls of `op` made in a row on a list of `count` rows, `current` being
\* the cursor before this call.
run_after(op, current, count) ==
    IF ~ULt(0, count) THEN NoRun
    ELSE IF run.op = op /\ run.calls < count
         THEN [run EXCEPT !.calls = @ + 1]
         ELSE [op |-> op, calls |-> 1, start |-> current]

\* The focused cursor moves to what `moved` holds, or the call panics in `fn`.
move_tcp(op, fn, moved) ==
    IF moved.panic
    THEN /\ panicked' = fn
         /\ UNCHANGED <<app, overflow_checks, enumerated, run>>
    ELSE /\ InWindow(moved.value)
         /\ tcp_selection' = moved.value
         /\ run' = run_after(op, tcp_selection, tcp_sockets_count)
         /\ UNCHANGED <<snapshot, selected_type, udp_selection, should_quit,
                        overflow_checks, panicked, enumerated>>

\* The udp arm writing the cursor of the tcp arm it was copied from
move_udp_pasted(op, fn, moved) ==
    IF moved.panic
    THEN /\ panicked' = fn
         /\ UNCHANGED <<app, overflow_checks, enumerated, run>>
    ELSE /\ InWindow(moved.value)
         /\ tcp_selection' = moved.value
         /\ run' = run_after(op, udp_selection, udp_sockets_count)
         /\ UNCHANGED <<snapshot, selected_type, udp_selection, should_quit,
                        overflow_checks, panicked, enumerated>>

move_udp(op, fn, moved) ==
    IF moved.panic
    THEN /\ panicked' = fn
         /\ UNCHANGED <<app, overflow_checks, enumerated, run>>
    ELSE /\ InWindow(moved.value)
         /\ udp_selection' = moved.value
         /\ run' = run_after(op, udp_selection, udp_sockets_count)
         /\ UNCHANGED <<snapshot, selected_type, tcp_selection, should_quit,
                        overflow_checks, panicked, enumerated>>

move_nothing ==
    /\ run' = NoRun
    /\ UNCHANGED <<app, overflow_checks, panicked, enumerated>>

on_up ==
    /\ panicked = ""
    /\ CASE selected_type = "Nothing" -> move_nothing
         [] selected_type = "Tcp" ->
               move_tcp("on_up", "up_select_counter",
                        up_select_counter(tcp_selection, tcp_sockets_count))
         [] selected_type = "Udp" ->
               move_udp("on_up", "up_select_counter",
                        up_select_counter(udp_selection, udp_sockets_count))

on_down ==
    /\ panicked = ""
    /\ CASE selected_type = "Nothing" -> move_nothing
         [] selected_type = "Tcp" ->
               move_tcp("on_down", "down_select_counter",
                        down_select_counter(tcp_selection, tcp_sockets_count))
         [] selected_type = "Udp" ->
               move_udp("on_down", "down_select_counter",
                        down_select_counter(udp_selection, udp_sockets_count))

on_right ==
    /\ panicked = ""
    /\ selected_type' = right(selected_type)
    /\ run' = NoRun
    /\ UNCHANGED <<snapshot, tcp_selection, udp_selection, should_quit,
                   overflow_checks, panicked, enumerated>>

\* on_left leaving the dashboard when there is nothing further left
on_left_quitting ==
    /\ panicked = ""
    /\ selected_type' = left(selected_type)
    /\ should_quit' = (should_quit \/ selected_type = "Nothing")
    /\ run' = NoRun
    /\ UNCHANGED <<snapshot, tcp_selection, udp_selection,
                   overflow_checks, panicked, enumerated>>

on_left ==
    /\ panicked = ""
    /\ selected_type' = left(selected_type)
    /\ run' = NoRun
    /\ UNCHANGED <<snapshot, tcp_selection, udp_selection, should_quit,
                   overflow_checks, panicked, enumerated>>

Keys == {"q", "x"}

\* on_key with 'q' switching the flag over
on_key_toggling(c) ==
    /\ panicked = ""
    /\ should_quit' = IF c = "q" THEN ~should_quit ELSE should_quit
    /\ run' = NoRun
    /\ UNCHANGED <<snapshot, selected_type, tcp_selection, udp_selection,
                   overflow_checks, panicked, enumerated>>

on_key(c) ==
    /\ panicked = ""
    /\ should_quit' = IF c = "q" THEN TRUE ELSE should_quit
    /\ run' = NoRun
    /\ UNCHANGED <<snapshot, selected_type, tcp_selection, udp_selection,
                   overflow_checks, panicked, enumerated>>

\* The call builds a fresh process table (System::new_all, refresh_all) and
\* hands a String to its caller; of the state it changes nothing (&self),
\* unless it panics.
selected_socket_info ==
    /\ panicked = ""
    /\ \E alive \in SUBSET Pids :
          /\ panicked' = IF selected_socket_info_with(alive).panic
                         THEN "selected_socket_info" ELSE panicked
          /\ UNCHANGED <<app, overflow_checks, enumerated, run>>

Next ==
    \/ on_tick
    \/ on_up
    \/ on_down
    \/ on_left
    \/ on_right
    \/ \E c \in Keys : on_key(c)
    \/ selected_socket_info

Spec == Init /\ [][Next]_vars

\* The refresh alone, over every list the collaborator may return.
update_sockets_any == update_sockets_from(AnyResults)

SplitNext == update_sockets_any

SplitSpec == Init /\ [][SplitNext]_vars

----------------------------------------------------------------------------
\* Properties

\* The focused protocol's count and cursor (read only while one is focused).
FocusedCount == IF selected_type = "Tcp" THEN tcp_sockets_count ELSE udp_sockets_count

FocusedCursor == IF selected_type = "Tcp" THEN tcp_selection ELSE udp_selection

Count(seq, x) == Cardinality({ i \in DOMAIN seq : seq[i] = x })

IsTcp(si) == si.protocol_socket_info.proto = "Tcp"

IsUdp(si) == si.protocol_socket_info.proto = "Udp"

Row(si) == <<si.protocol_socket_info.info, si.associated_pids>>

Rows(seq) == [i \in DOMAIN seq |-> Row(seq[i])]

\* C1: selected_socket_info() never panics, in any state reachable from
\* App::new() by refreshes and navigation calls.
C1_InfoNeverPanics == panicked # "selected_socket_info"

\* C2: on_up and on_down, called while the focused protocol's count is 0, do
\* not panic and leave both cursors exactly as they were.
C2_EmptyListSafe ==
    [][ ((on_up \/ on_down) /\ selected_type # "Nothing" /\ FocusedCount = 0)
        => (panicked' = "" /\ tcp_selection' = tcp_selection
                           /\ udp_selection' = udp_selection) ]_vars

\* C3: a cursor that is set is a valid index of its own protocol's list.
C3_CursorBounds ==
    /\ tcp_selection # None => ULt(tcp_selection[1], tcp_sockets_count)
    /\ udp_selection # None => ULt(udp_selection[1], udp_sockets_count)

\* C4 as claimed: N calls of on_down (or of on_up) in a row on a focused list
\* of N > 0 rows leave the cursor at the value it had before them, whatever
\* that value was, unset included.
C4_WrapAnyStart ==
    (run.op # "" /\ run.calls = FocusedCount) => FocusedCursor = run.start

\* C4 as amended: N calls of on_down (or of on_up) in a row on a focused
\* list of N > 0 rows leave a cursor that was a valid index c < N at c; a
\* cursor that was unset is not unset afterwards (on_down leaves N - 1, on_up
\* leaves 1 mod N) and one that was a stale index c >= N is left at N - 1 by
\* on_down and at c - N by on_up.
C4_WrapAround ==
    (run.op # "" /\ run.calls = FocusedCount) =>
        IF run.start # None /\ ULt(run.start[1], FocusedCount)
        THEN FocusedCursor = run.start
        ELSE IF run.op = "on_down" THEN FocusedCursor = Some(FocusedCount - 1)
        ELSE IF run.start = None THEN FocusedCursor = Some(1 % FocusedCount)
        ELSE FocusedCursor = Some(run.start[1] - FocusedCount)

C4_Witness ==
    /\ run.op = "on_down" /\ run.calls = 3 /\ run.start = Some(1)
    /\ selected_type = "Tcp" /\ tcp_sockets_count = 3 /\ tcp_selection = Some(1)

\* C5: split_sockets keeps every record exactly once: the two outputs are as
\* long together as the input, and each record, with its process ids, is in
\* the output of its protocol as many times as it is in the input and is not
\* in the other output.
C5_PartitionComplete ==
    (enumerated # None /\ enumerated[1].ok) =>
        LET raw == enumerated[1].value
            tcp == sockets_info_res.value.tcp_sockets
            udp == sockets_info_res.value.udp_sockets
        IN  /\ sockets_info_res.ok
            /\ Len(tcp) + Len(udp) = Len(raw)
            /\ \A k \in DOMAIN SocketTable :
                  LET si == SocketTable[k]
                  IN  IF IsTcp(si)
                      THEN Count(tcp, Row(si)) = Count(raw, si) /\ Count(udp, Row(si)) = 0
                      ELSE Count(udp, Row(si)) = Count(raw, si) /\ Count(tcp, Row(si)) = 0

C5_Witness ==
    /\ enumerated # None /\ enumerated[1].ok
    /\ Len(enumerated[1].value) = 3
    /\ enumerated[1].value[1] = enumerated[1].value[3]
    /\ IsTcp(enumerated[1].value[1]) /\ IsUdp(enumerated[1].value[2])
    /\ Len(sockets_info_res.value.tcp_sockets) = 2

\* C6: each output of split_sockets is the input's records of that protocol
\* in their input order.
C6_OrderPreserved ==
    (enumerated # None /\ enumerated[1].ok) =>
        /\ sockets_info_res.value.tcp_sockets = Rows(SelectSeq(enumerated[1].value, IsTcp))
        /\ sockets_info_res.value.udp_sockets = Rows(SelectSeq(enumerated[1].value, IsUdp))

C6_Witness ==
    /\ enumerated # None /\ enumerated[1].ok
    /\ enumerated[1].value = <<SocketTable[3], SocketTable[4], SocketTable[1]>>
    /\ sockets_info_res.value.tcp_sockets = <<Row(SocketTable[3]), Row(SocketTable[1])>>

\* C7: on_right takes the focus Nothing to Tcp, Tcp to Udp and Udp to Udp;
\* on_left takes Udp to Tcp, Tcp to Nothing and Nothing to Nothing; so right
\* then left from Nothing is Nothing and two rights from any focus are Udp.
C7_FocusSaturates ==
    [][ /\ on_right => selected_type' =
              [Nothing |-> "Tcp", Tcp |-> "Udp", Udp |-> "Udp"][selected_type]
        /\ on_left => selected_type' =
              [Nothing |-> "Nothing", Tcp |-> "Nothing", Udp |-> "Tcp"][selected_type]
        /\ left(right("Nothing")) = "Nothing"
        /\ \A f \in {"Nothing", "Tcp", "Udp"} : right(right(f)) = "Udp" ]_vars

C7_Witness == selected_type = "Udp" /\ enumerated = None /\ ~should_quit

\* C8: selected_tcp() is unset unless the focus is Tcp, and is then the
\* stored tcp cursor; selected_udp() likewise for Udp; the two are never
\* both set.
C8_FocusedOnly ==
    /\ selected_type # "Tcp" => selected_tcp = None
    /\ selected_type = "Tcp" => selected_tcp = tcp_selection
    /\ selected_type # "Udp" => selected_udp = None
    /\ selected_type = "Udp" => selected_udp = udp_selection
    /\ ~(selected_tcp # None /\ selected_udp # None)

C8_Witness ==
    /\ selected_type = "Udp" /\ tcp_selection = Some(1) /\ udp_selection = Some(0)
    /\ selected_tcp = None /\ selected_udp = Some(0)

\* C9: after a refresh whose enumeration failed, the snapshot result is the
\* FailToGetSocketsInfo error with the collaborator's text, both row lists
\* are empty and both counts are 0.
C9_DegradeOnFailure ==
    (enumerated # None /\ ~enumerated[1].ok) =>
        /\ sockets_info_res =
              [ok |-> FALSE,
               error |-> [variant |-> "FailToGetSocketsInfo",
                          message |-> enumerated[1].error.text]]
        /\ tcp_sockets = <<>>
        /\ udp_sockets = <<>>
        /\ tcp_sockets_count = 0
        /\ udp_sockets_count = 0
        /\ panicked # "update_sockets"

\* A failed refresh met in the checked build with the tcp cursor on row 2,
\* which only a snapshot of three tcp rows before it can have put there.
C9_Witness ==
    /\ enumerated # None /\ ~enumerated[1].ok
    /\ overflow_checks /\ tcp_selection = Some(2) /\ panicked = ""

\* C10: a refresh, successful or failed, leaves the focus, both cursors and
\* should_quit as they were (and a step that changes the snapshot is one).
C10_RefreshFrame ==
    [][ (on_tick \/ snapshot' # snapshot \/ enumerated' # enumerated)
        => UNCHANGED <<selected_type, tcp_selection, udp_selection, should_quit>> ]_vars

\* A successful refresh met in the checked build with the udp cursor beyond the
\* single row it found: the cursor is the one an earlier snapshot left.
C10_Witness ==
    /\ enumerated # None /\ enumerated[1].ok
    /\ overflow_checks /\ selected_type = "Udp" /\ should_quit
    /\ udp_sockets_count = 1 /\ udp_selection = Some(1)

\* C11: on a focused list of N > 0 rows with the cursor at a valid index
\* c < N, on_down moves it to c + 1, or to 0 from N - 1, and on_up moves it to
\* c - 1, or to N - 1 from 0; on 3 tcp rows with the cursor unset the first
\* three on_down calls in a row leave 0, 1, 2 and the fourth leaves 0.
C11_OneStep ==
    [][ /\ ( /\ selected_type # "Nothing" /\ ULt(0, FocusedCount)
             /\ FocusedCursor # None /\ ULt(FocusedCursor[1], FocusedCount)
             /\ on_down )
           => ( /\ panicked' = ""
                /\ FocusedCursor' = Some(IF FocusedCursor[1] < FocusedCount - 1
                                         THEN FocusedCursor[1] + 1 ELSE 0) )
        /\ ( /\ selected_type # "Nothing" /\ ULt(0, FocusedCount)
             /\ FocusedCursor # None /\ ULt(FocusedCursor[1], FocusedCount)
             /\ on_up )
           => ( /\ panicked' = ""
                /\ FocusedCursor' = Some(IF FocusedCursor[1] > 0
                                         THEN FocusedCursor[1] - 1
                                         ELSE FocusedCount - 1) )
        /\ ( /\ selected_type' = "Tcp" /\ tcp_sockets_count' = 3
             /\ run'.op = "on_down" /\ run'.start = None )
           => tcp_selection' = Some(run'.calls - 1)
        /\ ( /\ selected_type = "Tcp" /\ tcp_sockets_count = 3
             /\ run.op = "on_down" /\ run.start = None /\ run.calls = 3
             /\ on_down )
           => tcp_selection' = Some(0)
      ]_vars

\* The fourth on_down of the scenario has been made: it began a new run from
\* the last of the 3 tcp rows and left the cursor on the first.
C11_Witness ==
    /\ selected_type = "Tcp" /\ tcp_sockets_count = 3
    /\ run = [op |-> "on_down", calls |-> 1, start |-> Some(2)]
    /\ tcp_selection = Some(0) /\ panicked = ""

\* The line "local[ADDR:PORT] -> remote[ADDR:PORT]; pids[...]; state: STATE"
\* of a tcp row and the line "local[ADDR:PORT] -> *:*; pids[...]" of a udp row.
TcpLineTight(row) ==
    "local[" \o row[1].local_addr \o ":" \o ToString(row[1].local_port)
    \o "] -> remote[" \o row[1].remote_addr \o ":" \o ToString(row[1].remote_port)
    \o "]; pids" \o debug_pids(row[2]) \o "; state: " \o row[1].state

UdpLineTight(row) ==
    "local[" \o row[1].local_addr \o ":" \o ToString(row[1].local_port)
    \o "] -> *:*; pids" \o debug_pids(row[2])

\* The lines of the rows of SocketTable, written out.
LineWritten(row) ==
    CASE row = Row(SocketTable[1]) ->
           "local[127.0.0.1 : 80] -> remote [0.0.0.0 : 0]; pids[1]; state: LISTEN"
      [] row = Row(SocketTable[2]) ->
           "local[0.0.0.0 : 53] -> *:* pids[]"
      [] row = Row(SocketTable[3]) ->
           "local[10.0.0.1 : 443] -> remote [203.0.113.5 : 55000]; pids[2, 3]; state: ESTABLISHED"
      [] row = Row(SocketTable[4]) ->
           "local[127.0.0.1 : 5353] -> *:* pids[1]"
      [] row = Row(SocketTable[5]) ->
           "local[192.168.0.2 : 22] -> remote [0.0.0.0 : 0]; pids[]; state: LISTEN"

\* The input of the end-to-end scenario.
ScenarioInput == <<SocketTable[1], SocketTable[2], SocketTable[3]>>

\* C12 as stated: after a successful refresh each tcp line is
\* "local[ADDR:PORT] -> remote[ADDR:PORT]; pids[...]; state: STATE" of its
\* snapshot row and each udp line is "local[ADDR:PORT] -> *:*; pids[...]" of
\* its row; the scenario input gives 2 tcp lines and 1 udp line, the first tcp
\* line being "local[127.0.0.1:80] -> remote[0.0.0.0:0]; pids[1]; state: LISTEN".
C12_TightLines ==
    (enumerated # None /\ enumerated[1].ok) =>
        /\ Len(tcp_sockets) = Len(sockets_info_res.value.tcp_sockets)
        /\ Len(udp_sockets) = Len(sockets_info_res.value.udp_sockets)
        /\ \A i \in DOMAIN tcp_sockets :
              tcp_sockets[i] = TcpLineTight(sockets_info_res.value.tcp_sockets[i])
        /\ \A i \in DOMAIN udp_sockets :
              udp_sockets[i] = UdpLineTight(sockets_info_res.value.udp_sockets[i])
        /\ enumerated[1].value = ScenarioInput =>
              /\ Len(tcp_sockets) = 2 /\ Len(udp_sockets) = 1
              /\ tcp_sockets[1] =
                   "local[127.0.0.1:80] -> remote[0.0.0.0:0]; pids[1]; state: LISTEN"

\* C12 as amended: after a successful refresh each tcp line is
\* "local[ADDR : PORT] -> remote [ADDR : PORT]; pids[...]; state: STATE" of
\* its snapshot row and each udp line is "local[ADDR : PORT] -> *:* pids[...]"
\* of its row, the ids separated by ", "; the scenario input gives 2 tcp lines
\* and 1 udp line, the first tcp line being
\* "local[127.0.0.1 : 80] -> remote [0.0.0.0 : 0]; pids[1]; state: LISTEN".
C12_SpacedLines ==
    (enumerated # None /\ enumerated[1].ok) =>
        /\ Len(tcp_sockets) = Len(sockets_info_res.value.tcp_sockets)
        /\ Len(udp_sockets) = Len(sockets_info_res.value.udp_sockets)
        /\ \A i \in DOMAIN tcp_sockets :
              tcp_sockets[i] = LineWritten(sockets_info_res.value.tcp_sockets[i])
        /\ \A i \in DOMAIN udp_sockets :
              udp_sockets[i] = LineWritten(sockets_info_res.value.udp_sockets[i])
        /\ enumerated[1].value = ScenarioInput =>
              /\ Len(tcp_sockets) = 2 /\ Len(udp_sockets) = 1
              /\ tcp_sockets[1] =
                   "local[127.0.0.1 : 80] -> remote [0.0.0.0 : 0]; pids[1]; state: LISTEN"
              /\ tcp_sockets[2] =
                   "local[10.0.0.1 : 443] -> remote [203.0.113.5 : 55000]; pids[2, 3]; state: ESTABLISHED"
              /\ udp_sockets[1] = "local[0.0.0.0 : 53] -> *:* pids[]"

\* The refresh of the scenario has been made.
C12_Witness ==
    /\ enumerated = Some(Ok(ScenarioInput))
    /\ Len(tcp_sockets) = 2 /\ Len(udp_sockets) = 1
    /\ sockets_info_res.ok
    /\ sockets_info_res.value.tcp_sockets[1] = Row(SocketTable[1])

\* The display texts of the messages met, written out.
DisplayWritten(message) ==
    CASE message = "xxxx" -> "fail to get sockets info: xxxx"
      [] message = "" -> "fail to get sockets info: "
      [] message = "permission denied" -> "fail to get sockets info: permission denied"
      [] message = "platform api error" -> "fail to get sockets info: platform api error"

\* C13: the display text of the enumeration error is "fail to get sockets
\* info: " followed by its message as it is, and the error a failed refresh
\* stores has for message the text of the error get_sockets_info returned.
C13_ErrorDisplay ==
    (enumerated # None /\ ~enumerated[1].ok) =>
        /\ ~sockets_info_res.ok
        /\ sockets_info_res.error.message = enumerated[1].error.text
        /\ ConnectionToolsError_display(sockets_info_res.error)
              = DisplayWritten(enumerated[1].error.text)
        /\ \A message \in {"xxxx", ""} :
              ConnectionToolsError_display(FailToGetSocketsInfo(message))
                 = DisplayWritten(message)

\* A refresh has failed with "permission denied" and the stored error shows it.
C13_Witness ==
    /\ enumerated # None /\ ~enumerated[1].ok
    /\ enumerated[1].error.text = "permission denied"
    /\ ~sockets_info_res.ok
    /\ ConnectionToolsError_display(sockets_info_res.error)
          = "fail to get sockets info: permission denied"

\* C14: in every state, at the start and after every refresh and every
\* navigation call, each count is the length of its list of lines; when
\* sockets_info_res is Ok each is also the length of its vector of the
\* snapshot and the i-th line is the formatting of the i-th row; when it is
\* an error both lists of lines are empty and both counts are 0.
C14_DerivedConsistent ==
    /\ tcp_sockets_count = Len(tcp_sockets)
    /\ udp_sockets_count = Len(udp_sockets)
    /\ sockets_info_res.ok =>
          /\ tcp_sockets_count = Len(sockets_info_res.value.tcp_sockets)
          /\ udp_sockets_count = Len(sockets_info_res.value.udp_sockets)
          /\ \A i \in DOMAIN sockets_info_res.value.tcp_sockets :
                tcp_sockets[i] =
                   tcp_socket_to_string(sockets_info_res.value.tcp_sockets[i][1],
                                        sockets_info_res.value.tcp_sockets[i][2])
          /\ \A i \in DOMAIN sockets_info_res.value.udp_sockets :
                udp_sockets[i] =
                   udp_socket_to_string(sockets_info_res.value.udp_sockets[i][1],
                                        sockets_info_res.value.udp_sockets[i][2])
    /\ ~sockets_info_res.ok =>
          /\ tcp_sockets = <<>> /\ udp_sockets = <<>>
          /\ tcp_sockets_count = 0 /\ udp_sockets_count = 0

\* A snapshot of two tcp rows and one udp row with navigation calls made on
\* it: the focus is on the udp list and both cursors are set.
C14_Witness ==
    /\ sockets_info_res.ok
    /\ tcp_sockets_count = 2 /\ udp_sockets_count = 1
    /\ selected_type = "Udp" /\ tcp_selection = Some(1) /\ udp_selection = Some(0)
    /\ run.op = "on_up"

\* C15: on_up and on_down change no field with the focus on Nothing; with the
\* focus on Tcp they leave udp_selection and the focus as they were and with
\* the focus on Udp tcp_selection and the focus; on_left and on_right leave
\* both cursors as they were. So a cursor changes only in a step that begins
\* and ends with the focus on its list, and it keeps its value while the focus
\* is moved away and back.
C15_CursorIndependence ==
    [][ /\ (selected_type = "Nothing" /\ (on_up \/ on_down)) => UNCHANGED app
        /\ (selected_type = "Tcp" /\ (on_up \/ on_down))
              => UNCHANGED <<udp_selection, selected_type>>
        /\ (selected_type = "Udp" /\ (on_up \/ on_down))
              => UNCHANGED <<tcp_selection, selected_type>>
        /\ (on_left \/ on_right) => UNCHANGED <<tcp_selection, udp_selection>>
        /\ tcp_selection' # tcp_selection
              => /\ selected_type = "Tcp" /\ selected_type' = "Tcp"
                 /\ udp_selection' = udp_selection
        /\ udp_selection' # udp_selection
              => /\ selected_type = "Udp" /\ selected_type' = "Udp"
                 /\ tcp_selection' = tcp_selection
      ]_vars

\* The focus is back on Nothing with each cursor where the calls made on its
\* list left it.
C15_Witness ==
    /\ selected_type = "Nothing" /\ panicked = ""
    /\ tcp_selection = Some(1) /\ udp_selection = Some(2)

\* C16: on_up, on_down, on_left and on_right change none of sockets_info_res,
\* tcp_sockets, udp_sockets, tcp_sockets_count, udp_sockets_count and
\* should_quit; a step that changes one of the snapshot's fields is a refresh,
\* which stores what get_sockets_info has just returned.
C16_NavigationFrame ==
    [][ /\ (on_up \/ on_down \/ on_left \/ on_right)
              => UNCHANGED <<snapshot, should_quit>>
        /\ (selected_type' # selected_type \/ tcp_selection' # tcp_selection
              \/ udp_selection' # udp_selection)
              => UNCHANGED <<snapshot, should_quit>>
        /\ snapshot' # snapshot
              => /\ enumerated' # None
                 /\ sockets_info_res' = tcp_and_upd_sockets(enumerated'[1])
                 /\ UNCHANGED <<selected_type, tcp_selection, udp_selection>>
      ]_vars

\* Navigation calls have been made on a snapshot of one tcp row and two udp
\* rows, which is still the one the last refresh stored.
C16_Witness ==
    /\ enumerated # None /\ enumerated[1].ok
    /\ sockets_info_res = tcp_and_upd_sockets(enumerated[1])
    /\ tcp_sockets_count = 1 /\ udp_sockets_count = 2
    /\ selected_type = "Udp" /\ udp_selection = Some(1) /\ tcp_selection = Some(0)
    /\ run.op = "on_down" /\ ~should_quit

\* C17: the state starts with an Ok snapshot of no rows, the focus on Nothing,
\* both cursors unset and both counts 0; an unset cursor stays unset in every
\* step but an on_up or on_down made with the focus on its list, and that
\* call, on_up as well as on_down, sets it to 0 whatever the length is.
C17_LazyCursor ==
    /\ /\ sockets_info_res = [ok |-> TRUE,
                              value |-> [tcp_sockets |-> <<>>, udp_sockets |-> <<>>]]
       /\ selected_type = "Nothing"
       /\ tcp_selection = None /\ udp_selection = None
       /\ tcp_sockets_count = 0 /\ udp_sockets_count = 0
    /\ [][ /\ (tcp_selection = None /\ tcp_selection' # None)
                 => /\ selected_type = "Tcp" /\ (on_up \/ on_down)
                    /\ tcp_selection' = Some(0)
           /\ (udp_selection = None /\ udp_selection' # None)
                 => /\ selected_type = "Udp" /\ (on_up \/ on_down)
                    /\ udp_selection' = Some(0)
           /\ (tcp_selection = None /\ selected_type = "Tcp" /\ (on_up \/ on_down))
                 => tcp_selection' = Some(0) /\ panicked' = ""
           /\ (udp_selection = None /\ selected_type = "Udp" /\ (on_up \/ on_down))
                 => udp_selection' = Some(0) /\ panicked' = ""
         ]_vars

\* The first call on a list of 3 tcp rows was on_up and left the cursor on the
\* first row, the udp cursor being still unset.
C17_Witness ==
    /\ selected_type = "Tcp" /\ tcp_sockets_count = 3
    /\ run = [op |-> "on_up", calls |-> 1, start |-> None]
    /\ tcp_selection = Some(0) /\ udp_selection = None

\* The tcp rows and the udp rows of a list of records, and their lines.
TcpRowsIn(records) == Rows(SelectSeq(records, IsTcp))

UdpRowsIn(records) == Rows(SelectSeq(records, IsUdp))

TcpLines(rows) == [i \in DOMAIN rows |-> tcp_socket_to_string(rows[i][1], rows[i][2])]

UdpLines(rows) == [i \in DOMAIN rows |-> udp_socket_to_string(rows[i][1], rows[i][2])]

\* C18: after a refresh sockets_info_res, both lists of lines and both counts
\* are those of the result get_sockets_info returned to that refresh and of
\* nothing else, whatever the snapshots before it were: a successful refresh
\* that follows a failed one stores what it stores after any other state.
C18_RefreshMemoryless ==
    enumerated # None =>
        IF enumerated[1].ok
        THEN /\ sockets_info_res =
                   [ok |-> TRUE,
                    value |-> [tcp_sockets |-> TcpRowsIn(enumerated[1].value),
                               udp_sockets |-> UdpRowsIn(enumerated[1].value)]]
             /\ tcp_sockets = TcpLines(TcpRowsIn(enumerated[1].value))
             /\ udp_sockets = UdpLines(UdpRowsIn(enumerated[1].value))
             /\ tcp_sockets_count = Len(SelectSeq(enumerated[1].value, IsTcp))
             /\ udp_sockets_count = Len(SelectSeq(enumerated[1].value, IsUdp))
        ELSE /\ ~sockets_info_res.ok
             /\ sockets_info_res.error.message = enumerated[1].error.text
             /\ tcp_sockets = <<>> /\ udp_sockets = <<>>
             /\ tcp_sockets_count = 0 /\ udp_sockets_count = 0

\* The latest refresh returned one tcp record and the tcp cursor is still on
\* the third row of a snapshot before it.
C18_Witness ==
    /\ enumerated = Some(Ok(<<SocketTable[3]>>))
    /\ sockets_info_res.ok /\ tcp_sockets_count = 1
    /\ selected_type = "Tcp" /\ tcp_selection = Some(2)

\* C19: selected_socket_info returns "choose socket with arrow keys" with the
\* focus on Nothing, whatever the snapshot and the cursors are; "fail to get
\* sockets info" with the focus on Tcp and an error stored, whatever the tcp
\* cursor is, nothing being indexed; and "todo: implement in the same way as
\* for TCP" with the focus on Udp, whatever the snapshot and the udp cursor are.
C19_StaticOutcomes ==
    \A alive \in SUBSET Pids :
        /\ selected_type = "Nothing" =>
              selected_socket_info_with(alive)
                 = [panic |-> FALSE, value |-> "choose socket with arrow keys"]
        /\ (selected_type = "Tcp" /\ ~sockets_info_res.ok) =>
              selected_socket_info_with(alive)
                 = [panic |-> FALSE, value |-> "fail to get sockets info"]
        /\ selected_type = "Udp" =>
              selected_socket_info_with(alive)
                 = [panic |-> FALSE,
                    value |-> "todo: implement in the same way as for TCP"]

\* The unchecked build with the focus on Tcp, an error stored and the tcp
\* cursor wrapped to usize::MAX, no call having panicked.
C19_Witness ==
    /\ selected_type = "Tcp" /\ ~sockets_info_res.ok
    /\ ~overflow_checks /\ tcp_selection = Some(0 - 1) /\ panicked = ""

\* One block per process id, in the order of the ids, built from the last id
\* backwards.
RECURSIVE BlocksUpTo(_, _, _)
BlocksUpTo(alive, pids, n) ==
    IF n = 0 THEN ""
    ELSE BlocksUpTo(alive, pids, n - 1)
         \o (IF pids[n] \in alive
             THEN process_block(pids[n], Process(pids[n]))
             ELSE "todo: fix me")

\* C20: with the focus on Tcp, an Ok snapshot and the tcp cursor on a row of
\* it (or unset, the list having a first row), selected_socket_info returns
\* the blocks of the row's process ids one after the other in the ids' order,
\* the detail block of an id whose lookup succeeds and "todo: fix me" for one
\* whose lookup fails, whichever the other lookups do; a row with no
\* process id gives the empty string.
C20_BestEffortPids ==
    ( /\ selected_type = "Tcp" /\ sockets_info_res.ok
      /\ unwrap_or(tcp_selection, 0) >= 0
      /\ unwrap_or(tcp_selection, 0) < Len(sockets_info_res.value.tcp_sockets) )
    => LET pids == sockets_info_res.value.tcp_sockets[unwrap_or(tcp_selection, 0) + 1][2]
       IN  \A alive \in SUBSET Pids :
              /\ ~selected_socket_info_with(alive).panic
              /\ selected_socket_info_with(alive).value
                    = BlocksUpTo(alive, pids, Len(pids))
              /\ pids = <<>> => selected_socket_info_with(alive).value = ""
              /\ pids = <<2, 3>> =>
                    selected_socket_info_with(alive).value
                       = (IF 2 \in alive THEN process_block(2, Process(2))
                          ELSE "todo: fix me")
                         \o (IF 3 \in alive THEN process_block(3, Process(3))
                             ELSE "todo: fix me")

\* The tcp cursor is on the row of no process, below the row of two.
C20_Witness ==
    /\ selected_type = "Tcp" /\ sockets_info_res.ok /\ panicked = ""
    /\ tcp_selection = Some(1)
    /\ Len(sockets_info_res.value.tcp_sockets) = 2
    /\ sockets_info_res.value.tcp_sockets[1][2] = <<2, 3>>
    /\ sockets_info_res.value.tcp_sockets[2][2] = <<>>

\* C21: an on_down made with the focus on a list of N > 0 rows does not panic
\* and leaves the focused cursor set and below N, whatever the cursor was
\* before it: unset, a row of the list, or an index >= N that a refresh
\* finding fewer rows left behind.
C21_DownRestoresBounds ==
    [][ ( /\ selected_type # "Nothing" /\ ULt(0, FocusedCount) /\ on_down )
        => ( /\ panicked' = ""
             /\ FocusedCursor' # None
             /\ FocusedCursor'[1] >= 0
             /\ FocusedCursor'[1] < FocusedCount'
             /\ FocusedCount' = FocusedCount )
      ]_vars

\* An on_down has been made on the single tcp row with the cursor on the third
\* row of an earlier snapshot, and has left it on the first.
C21_Witness ==
    /\ selected_type = "Tcp" /\ tcp_sockets_count = 1
    /\ run = [op |-> "on_down", calls |-> 1, start |-> Some(2)]
    /\ tcp_selection = Some(0) /\ panicked = ""

\* C22: a cursor that is set stays set in every step, be it a refresh, on_up,
\* on_down, on_left, on_right or on_key; with a cursor set, selected_tcp (or
\* selected_udp) gives None only because the focus is not on its list.
C22_NeverUnset ==
    [][ /\ tcp_selection # None => tcp_selection' # None
        /\ udp_selection # None => udp_selection' # None
        /\ (tcp_selection' # None /\ selected_tcp' = None) => selected_type' # "Tcp"
        /\ (udp_selection' # None /\ selected_udp' = None) => selected_type' # "Udp"
      ]_vars

\* Both cursors are set, a refresh has since failed and 'q' has been pressed;
\* selected_tcp gives None, the focus being on the udp list.
C22_Witness ==
    /\ tcp_selection = Some(2) /\ udp_selection = Some(0)
    /\ enumerated # None /\ ~enumerated[1].ok /\ should_quit
    /\ selected_type = "Udp" /\ selected_tcp = None /\ selected_udp = Some(0)

\* C23: should_quit starts FALSE; a step changes it only by setting it to TRUE
\* and only as on_key('q'), which always leaves it TRUE; on_key of another
\* character, a refresh and the navigation calls leave it as it was, and it is
\* never FALSE again; on_key changes no other field.
C23_QuitMonotonic ==
    /\ should_quit = FALSE
    /\ [][ /\ should_quit' # should_quit
                 => /\ should_quit' = TRUE
                    /\ on_key("q")
           /\ on_key("q") => should_quit' = TRUE
           /\ (\E c \in Keys \ {"q"} : on_key(c)) => should_quit' = should_quit
           /\ (on_up \/ on_down \/ on_left \/ on_right \/ snapshot' # snapshot
                 \/ enumerated' # enumerated)
                 => should_quit' = should_quit
           /\ should_quit => should_quit'
           /\ (\E c \in Keys : on_key(c))
                 => UNCHANGED <<snapshot, selected_type, tcp_selection, udp_selection>>
         ]_vars

\* 'q' has been pressed and on_up calls have since been made on the tcp rows
\* of a refresh.
C23_Witness ==
    /\ should_quit /\ enumerated # None /\ enumerated[1].ok
    /\ selected_type = "Tcp" /\ tcp_selection = Some(1)
    /\ run.op = "on_up" /\ run.calls = 2

====
